---- MODULE Spec2Model ----
(***************************************************************************)
(* Snapshot / incremental reconciliation of hft-book-rs.                   *)
(*                                                                         *)
(*   SpscRingBuffer    (ring buffer chapter)   -> SpecRing                 *)
(*   SeqLock           (engine/signals.md)     -> SpecSeqLock              *)
(*   MarketDataEngine  (incremental/snapshot)  -> SpecEngine               *)
(*   GapDetector       (market data chapter)   -> SpecGap                  *)
(*   DoubleBufferedOrderBook (engine/signals.md) -> SpecDoubleBuffer       *)
(*   consume_batch     (ring buffer chapter)   -> SpecRingBatch            *)
(*   is_newer          (sequence wrap-around)  -> SpecIsNewer              *)
(*   MpscArrayQueue    (MPSC queue chapter)    -> SpecMpsc                 *)
(*                                                                         *)
(* Every specification owns a group of variables and leaves the other      *)
(* groups at their initial value.                                          *)
(***************************************************************************)
EXTENDS Integers, Sequences, FiniteSets, TLC

VARIABLES
    \* SpscRingBuffer<T>
    buffer, head, tail,
    \* producer thread inside try_push: program counter and locals
    p_pc, p_head, p_tail, p_value, p_result,
    \* consumer thread inside try_pop: program counter and locals
    c_pc, c_tail, c_head, c_value, c_result,
    \* history: values accepted by try_push / returned by try_pop, in order
    pushed, popped,
    \* consumer thread inside consume_batch: the loop index `i`, the values
    \* handed to `handler` so far, and the count returned (-1: none yet)
    b_i, b_handled, b_result,
    \* SeqLock<T>: the sequence counter and the protected data (two words)
    seq, data,
    \* writer thread inside write: program counter, local `seq`, and the memory
    \* effects of the call that have not taken place yet
    w_pc, w_seq, w_todo,
    \* reader threads inside read: program counter, locals `seq1`, `seq2`,
    \* `result`, the memory effects not performed yet, and the value returned
    r_pc, r_seq1, r_seq2, r_result, r_todo, r_ret,
    \* history: the data left by every completed write (and by new)
    published,
    \* MarketDataEngine: [state, buffer, book]
    engine,
    \* what the last handler call did: gaps reported (eprintln), snapshot
    \* requests sent, and replay_buffer's dropped_count / applied_count (println)
    out,
    \* the last handler call and its argument
    event,
    \* history: snapshot_seq of the last snapshot applied (0 after new)
    base_seq,
    \* GapDetector: the expected next sequence number
    next_seq,
    \* the packet on_packet was last called with (and next_seq before the
    \* call), and the branch on_packet took for it
    packet, verdict,
    \* a call of is_newer: its arguments `a`, `b`, whether it has returned, and
    \* the value returned
    cmp_a, cmp_b, cmp_pc, cmp_newer,
    \* DoubleBufferedOrderBook: the two OrderBook copies (each the updates
    \* applied to it, in order) and the index of the readable one
    books, current_index,
    \* writer thread inside update: program counter, local `back_index` and
    \* the argument `update`
    u_pc, back_index, update,
    \* reader threads: program counter, the index loaded, the book read
    f_pc, f_index, f_view,
    \* history: the updates handed to update(), in order
    issued,
    \* MpscArrayQueue<T>: the slots, the per-slot sequence numbers, the
    \* consumer index `head` and the producer index `tail`
    q_buffer, q_seqs, q_head, q_tail,
    \* producer threads inside push: program counter, locals `tail` and `seq`,
    \* the argument `value`, and the result of the last call
    mp_pc, mp_tail, mp_seq, mp_value, mp_result,
    \* the consumer thread inside pop: program counter, locals `head`, `seq`
    \* and `value`, and the result of the last call
    mc_pc, mc_head, mc_seq, mc_value, mc_result,
    \* history: the number of push calls so far (the n-th call pushes the
    \* value n), the position each accepted value was written at, and the
    \* values returned by pop, in order
    q_offered, q_position, q_popped

ringVars == <<buffer, head, tail, p_pc, p_head, p_tail, p_value, p_result,
              c_pc, c_tail, c_head, c_value, c_result, pushed, popped>>

batchVars == <<b_i, b_handled, b_result>>

seqLockVars == <<seq, data, w_pc, w_seq, w_todo, r_pc, r_seq1, r_seq2, r_result,
                 r_todo, r_ret, published>>

engineVars == <<engine, out, event, base_seq>>

gapVars == <<next_seq, packet, verdict>>

newerVars == <<cmp_a, cmp_b, cmp_pc, cmp_newer>>

doubleBufferVars == <<books, current_index, u_pc, back_index, update,
                      f_pc, f_index, f_view, issued>>

mpscVars == <<q_buffer, q_seqs, q_head, q_tail,
              mp_pc, mp_tail, mp_seq, mp_value, mp_result,
              mc_pc, mc_head, mc_seq, mc_value, mc_result,
              q_offered, q_position, q_popped>>

vars == <<ringVars, batchVars, seqLockVars, engineVars, gapVars, newerVars,
          doubleBufferVars, mpscVars>>

\* what try_push and try_pop leave alone, and what the whole ring buffer does
nonRingVars == <<batchVars, seqLockVars, engineVars, gapVars, newerVars,
                 doubleBufferVars, mpscVars>>
nonBatchVars == <<seqLockVars, engineVars, gapVars, newerVars, doubleBufferVars, mpscVars>>
nonSeqLockVars == <<ringVars, batchVars, engineVars, gapVars, newerVars,
                    doubleBufferVars, mpscVars>>
nonEngineVars == <<ringVars, batchVars, seqLockVars, gapVars, newerVars,
                   doubleBufferVars, mpscVars>>
nonGapVars == <<ringVars, batchVars, seqLockVars, engineVars, newerVars,
                doubleBufferVars, mpscVars>>
nonNewerVars == <<ringVars, batchVars, seqLockVars, engineVars, gapVars,
                  doubleBufferVars, mpscVars>>
nonMpscVars == <<ringVars, batchVars, seqLockVars, engineVars, gapVars, newerVars,
                 doubleBufferVars>>
nonDoubleBufferVars == <<ringVars, batchVars, seqLockVars, engineVars, gapVars,
                         newerVars, mpscVars>>

(***************************************************************************)
(* Bounds of the model.                                                    *)
(***************************************************************************)
\* width of the head / tail counters (usize in the source), scaled down
CounterBits == 2
\* log2 of the capacity handed to SpscRingBuffer::new (a power of two)
CapacityLog2 == 1
\* number of records the producer gets accepted in one run
MaxPush == 8
\* number of SeqLock::write calls in one run
MaxWrites == 1
\* largest sequence number of the feed in one run (u64 in the source)
MaxSeq == 4
\* number of records the engine's VecDeque holds at most in one run
MaxBuffer == 4
\* width of a packet's sequence number (u64 / u32 in the source), scaled down
SeqBits == 3
\* number of messages one packet carries at most
MaxCount == 2
\* number of calls of DoubleBufferedOrderBook::update in one run
MaxUpdates == 3
\* capacity the engine reserves for its VecDeque (`with_capacity(10000)` in
\* the source), scaled down
ReservedCapacity == 2
\* log2 of the capacity of the MpscArrayQueue
MpscCapacityLog2 == 1
\* number of calls of MpscArrayQueue::push in one run
MaxOffers == 5

Modulus == 2 ^ CounterBits
Values == {"x", "y"}

(***************************************************************************)
(* SpscRingBuffer                                                          *)
(***************************************************************************)
capacity == 2 ^ CapacityLog2
mask == capacity - 1

saturating_add(a, b) == IF a + b >= Modulus THEN Modulus - 1 ELSE a + b
wrapping_add(a, b) == (a + b) % Modulus
wrapping_sub(a, b) == (a - b + Modulus) % Modulus

RECURSIVE BitAnd(_, _)
BitAnd(x, y) ==
    IF x = 0 \/ y = 0 THEN 0
    ELSE (IF x % 2 = 1 /\ y % 2 = 1 THEN 1 ELSE 0) + 2 * BitAnd(x \div 2, y \div 2)

\* try_push: `head.wrapping_sub(tail) >= self.capacity`
IsFullStrict(h, t) == wrapping_sub(h, t) > capacity
IsFullPlain(h, t) == h - t >= capacity
IsFull(h, t) == wrapping_sub(h, t) >= capacity

\* try_pop: `tail == head`
IsEmptyByIndex(t, h) == BitAnd(t, mask) = BitAnd(h, mask)
IsEmpty(t, h) == t = h

\* try_push: `head & self.mask`
PushIndexAhead(h) == BitAnd(h + 1, mask)
PushIndex(h) == BitAnd(h, mask)

\* try_pop: `tail & self.mask`
PopIndexFromHead(t, h) == BitAnd(h, mask)
PopIndex(t, h) == BitAnd(t, mask)

NoResult == [tag |-> "none", value |-> "-"]
Ok == [tag |-> "Ok", value |-> "-"]
Err(v) == [tag |-> "Err", value |-> v]
Some(v) == [tag |-> "Some", value |-> v]
None == [tag |-> "None", value |-> "-"]

\* SpscRingBuffer::new: every slot MaybeUninit::uninit(), head = tail = 0
RingInit ==
    /\ buffer = [i \in 0 .. capacity - 1 |-> "uninit"]
    /\ head = 0
    /\ tail = 0
    /\ p_pc = "idle" /\ p_head = 0 /\ p_tail = 0 /\ p_value = "-"
    /\ p_result = NoResult
    /\ c_pc = "idle" /\ c_tail = 0 /\ c_head = 0 /\ c_value = "-"
    /\ c_result = NoResult
    /\ pushed = <<>>
    /\ popped = <<>>
    /\ b_i = 0 /\ b_handled = <<>> /\ b_result = -1

\* try_push(value): `let head = self.head.load(Relaxed)`
PushLoadHead(v) ==
    /\ p_pc = "idle"
    /\ Len(pushed) < MaxPush
    /\ p_value' = v
    /\ p_head' = head
    /\ p_result' = NoResult
    /\ p_pc' = "load_tail"
    /\ UNCHANGED <<buffer, head, tail, p_tail, c_pc, c_tail, c_head, c_value,
                   c_result, pushed, popped>>
    /\ UNCHANGED nonRingVars

\* `let tail = self.tail.load(Acquire)`
PushLoadTail ==
    /\ p_pc = "load_tail"
    /\ p_tail' = tail
    /\ p_pc' = "check"
    /\ UNCHANGED <<buffer, head, tail, p_head, p_value, p_result, c_pc, c_tail,
                   c_head, c_value, c_result, pushed, popped>>
    /\ UNCHANGED nonRingVars

\* `if head.wrapping_sub(tail) >= self.capacity { return Err(value); }`
PushFull ==
    /\ p_pc = "check"
    /\ IsFull(p_head, p_tail)
    /\ p_result' = Err(p_value)
    /\ p_pc' = "idle"
    /\ UNCHANGED <<buffer, head, tail, p_head, p_tail, p_value, c_pc, c_tail,
                   c_head, c_value, c_result, pushed, popped>>
    /\ UNCHANGED nonRingVars

\* `slot.write(value)` at `head & self.mask`
PushWrite ==
    /\ p_pc = "check"
    /\ ~IsFull(p_head, p_tail)
    /\ buffer' = [buffer EXCEPT ![PushIndex(p_head)] = p_value]
    /\ p_pc' = "store_head"
    /\ UNCHANGED <<head, tail, p_head, p_tail, p_value, p_result, c_pc, c_tail,
                   c_head, c_value, c_result, pushed, popped>>
    /\ UNCHANGED nonRingVars

\* `self.head.store(head.wrapping_add(1), Release); Ok(())`
PushStoreHead ==
    /\ p_pc = "store_head"
    /\ head' = wrapping_add(p_head, 1)
    /\ pushed' = Append(pushed, p_value)
    /\ p_result' = Ok
    /\ p_pc' = "idle"
    /\ UNCHANGED <<buffer, tail, p_head, p_tail, p_value, c_pc, c_tail, c_head,
                   c_value, c_result, popped>>
    /\ UNCHANGED nonRingVars

\* try_pop(): `let tail = self.tail.load(Relaxed)`
PopLoadTail ==
    /\ c_pc = "idle"
    /\ c_tail' = tail
    /\ c_result' = NoResult
    /\ c_pc' = "load_head"
    /\ UNCHANGED <<buffer, head, tail, p_pc, p_head, p_tail, p_value, p_result,
                   c_head, c_value, pushed, popped>>
    /\ UNCHANGED nonRingVars

\* `let head = self.head.load(Acquire)`
PopLoadHead ==
    /\ c_pc = "load_head"
    /\ c_head' = head
    /\ c_pc' = "check"
    /\ UNCHANGED <<buffer, head, tail, p_pc, p_head, p_tail, p_value, p_result,
                   c_tail, c_value, c_result, pushed, popped>>
    /\ UNCHANGED nonRingVars

\* `if tail == head { return None; }`
PopEmpty ==
    /\ c_pc = "check"
    /\ IsEmpty(c_tail, c_head)
    /\ c_result' = None
    /\ c_pc' = "idle"
    /\ UNCHANGED <<buffer, head, tail, p_pc, p_head, p_tail, p_value, p_result,
                   c_tail, c_head, c_value, pushed, popped>>
    /\ UNCHANGED nonRingVars

\* `slot.assume_init_read()` at `tail & self.mask`
PopRead ==
    /\ c_pc = "check"
    /\ ~IsEmpty(c_tail, c_head)
    /\ c_value' = buffer[PopIndex(c_tail, c_head)]
    /\ c_pc' = "store_tail"
    /\ UNCHANGED <<buffer, head, tail, p_pc, p_head, p_tail, p_value, p_result,
                   c_tail, c_head, c_result, pushed, popped>>
    /\ UNCHANGED nonRingVars

\* `self.tail.store(tail.wrapping_add(1), Release); Some(value)`
PopStoreTail ==
    /\ c_pc = "store_tail"
    /\ tail' = wrapping_add(c_tail, 1)
    /\ popped' = Append(popped, c_value)
    /\ c_result' = Some(c_value)
    /\ c_pc' = "idle"
    /\ UNCHANGED <<buffer, head, p_pc, p_head, p_tail, p_value, p_result,
                   c_tail, c_head, c_value, pushed>>
    /\ UNCHANGED nonRingVars

RingNext ==
    \/ \E v \in Values : PushLoadHead(v)
    \/ PushLoadTail
    \/ PushFull
    \/ PushWrite
    \/ PushStoreHead
    \/ PopLoadTail
    \/ PopLoadHead
    \/ PopEmpty
    \/ PopRead
    \/ PopStoreTail

\* consume_batch: `let available = head.wrapping_sub(tail)`
available == wrapping_sub(c_head, c_tail)

\* consume_batch: `tail + i`, an addition that overflows at the counter's
\* range: the build with overflow checks panics there, the build without
\* them wraps
AddOverflows(t, i) == t + i >= Modulus

\* consume_batch: `(tail + i) & self.mask` where the addition wraps
BatchIndex(t, i) == BitAnd((t + i) % Modulus, mask)

\* consume_batch(handler): `let tail = self.tail.load(Relaxed)`
BatchLoadTail ==
    /\ c_pc = "idle"
    /\ c_tail' = tail
    /\ c_result' = NoResult
    /\ b_i' = 0
    /\ b_handled' = <<>>
    /\ b_result' = -1
    /\ c_pc' = "batch_load_head"
    /\ UNCHANGED <<buffer, head, tail, p_pc, p_head, p_tail, p_value, p_result,
                   c_head, c_value, pushed, popped>>
    /\ UNCHANGED nonBatchVars

\* `let head = self.head.load(Acquire)`
BatchLoadHead ==
    /\ c_pc = "batch_load_head"
    /\ c_head' = head
    /\ c_pc' = "batch_check"
    /\ UNCHANGED <<buffer, head, tail, p_pc, p_head, p_tail, p_value, p_result,
                   c_tail, c_value, c_result, pushed, popped>>
    /\ UNCHANGED <<batchVars, nonBatchVars>>

\* `if available == 0 { return 0; }`
BatchEmpty ==
    /\ c_pc = "batch_check"
    /\ available = 0
    /\ b_result' = 0
    /\ c_pc' = "idle"
    /\ UNCHANGED <<buffer, head, tail, p_pc, p_head, p_tail, p_value, p_result,
                   c_tail, c_head, c_value, c_result, pushed, popped>>
    /\ UNCHANGED <<b_i, b_handled, nonBatchVars>>

\* `for i in 0..available`: `let index = (tail + i) & self.mask; let val =
\* unsafe { *self.buffer.get_unchecked(index).get() }; handler(val);`
BatchRead ==
    /\ c_pc \in {"batch_check", "batch_loop"}
    /\ b_i < available
    /\ b_handled' = Append(b_handled, buffer[BatchIndex(c_tail, b_i)])
    /\ b_i' = b_i + 1
    /\ c_pc' = "batch_loop"
    /\ UNCHANGED <<buffer, head, tail, p_pc, p_head, p_tail, p_value, p_result,
                   c_tail, c_head, c_value, c_result, pushed, popped>>
    /\ UNCHANGED <<b_result, nonBatchVars>>

\* `tail + i` in a build with overflow checks: the consumer thread panics
BatchAddPanics ==
    /\ c_pc \in {"batch_check", "batch_loop"}
    /\ b_i < available
    /\ AddOverflows(c_tail, b_i)
    /\ c_pc' = "panicked"
    /\ UNCHANGED <<buffer, head, tail, p_pc, p_head, p_tail, p_value, p_result,
                   c_tail, c_head, c_value, c_result, pushed, popped>>
    /\ UNCHANGED <<batchVars, nonBatchVars>>

\* `self.tail.store(tail.wrapping_add(available), Release); available`
BatchStoreTail ==
    /\ c_pc = "batch_loop"
    /\ b_i = available
    /\ tail' = wrapping_add(c_tail, available)
    /\ popped' = popped \o b_handled
    /\ b_result' = available
    /\ c_pc' = "idle"
    /\ UNCHANGED <<buffer, head, p_pc, p_head, p_tail, p_value, p_result,
                   c_tail, c_head, c_value, c_result, pushed>>
    /\ UNCHANGED <<b_i, b_handled, nonBatchVars>>

\* the consumer calls try_pop or consume_batch, the producer try_push
RingBatchNext ==
    \/ RingNext
    \/ BatchLoadTail
    \/ BatchLoadHead
    \/ BatchEmpty
    \/ BatchRead
    \/ BatchAddPanics
    \/ BatchStoreTail

(***************************************************************************)
(* SeqLock (engine/signals.md).                                            *)
(*                                                                         *)
(* The protected data is two machine words, a and b; the mutator of the    *)
(* k-th write sets both to k, and the accessor reads both.  The data is    *)
(* accessed with plain loads and stores while `seq` is atomic.  The        *)
(* orderings of the source decide which effects may overtake each other:   *)
(*   - write: `seq.store(seq + 1, Release)` orders only what precedes it,  *)
(*     so the mutator's plain stores may take effect before it; the final  *)
(*     `seq.store(seq + 2, Release)` comes after all of them;              *)
(*   - read: the first `seq.load(Acquire)` comes before everything that    *)
(*     follows it; the second `seq.load(Acquire)` orders only what follows *)
(*     it, so the accessor's plain loads may be satisfied after it.        *)
(* Program order is one of the orders allowed.                             *)
(***************************************************************************)
Readers == {"r1", "r2"}
Words == {"a", "b"}

NoRead == [a |-> -1, b |-> -1]

\* SeqLock::new(val): seq = 0, data = val
SeqLockInit ==
    /\ seq = 0
    /\ data = [a |-> 0, b |-> 0]
    /\ w_pc = "idle" /\ w_seq = 0 /\ w_todo = {}
    /\ r_pc = [r \in Readers |-> "idle"]
    /\ r_seq1 = [r \in Readers |-> 0]
    /\ r_seq2 = [r \in Readers |-> 0]
    /\ r_result = [r \in Readers |-> NoRead]
    /\ r_todo = [r \in Readers |-> {}]
    /\ r_ret = [r \in Readers |-> NoRead]
    /\ published = {[a |-> 0, b |-> 0]}

\* the value the mutator of the write that read `s` stores in every word
MutatorValue(s) == (s \div 2) + 1

\* effects of write that may take place in any order before the final store
WriteEffectsInProgramOrder(todo, e) == e \in todo /\ (e # "seq_odd" => "seq_odd" \notin todo)
WriteEffectWaitsForReaders(todo, e) == e \in todo /\ \A r \in Readers : r_pc[r] # "body"
WriteEffectEnabled(todo, e) == e \in todo

\* effects of read that may take place in any order after the first load
ReadEffectsInProgramOrder(todo, e) == e \in todo /\ (e = "seq2" => todo = {"seq2"})
ReadEffectWaitsForWriter(todo, e) == e \in todo /\ w_pc = "idle"
ReadEffectEnabled(todo, e) == e \in todo

\* write: `let seq = self.seq.load(Relaxed)`
WriteLoadSeq ==
    /\ w_pc = "idle"
    /\ seq < 2 * MaxWrites
    /\ w_seq' = seq
    /\ w_todo' = {"seq_odd"} \cup Words
    /\ w_pc' = "body"
    /\ UNCHANGED <<seq, data, r_pc, r_seq1, r_seq2, r_result, r_todo, r_ret, published>>
    /\ UNCHANGED nonSeqLockVars

\* write: `self.seq.store(seq + 1, Release)`
WriteStoreOdd ==
    /\ w_pc = "body"
    /\ WriteEffectEnabled(w_todo, "seq_odd")
    /\ seq' = w_seq + 1
    /\ w_todo' = w_todo \ {"seq_odd"}
    /\ UNCHANGED <<data, w_pc, w_seq, r_pc, r_seq1, r_seq2, r_result, r_todo, r_ret,
                   published>>
    /\ UNCHANGED nonSeqLockVars

\* write: `f(unsafe { &mut *self.data.get() })`, one word at a time
WriteMutate(word) ==
    /\ w_pc = "body"
    /\ WriteEffectEnabled(w_todo, word)
    /\ data' = [data EXCEPT ![word] = MutatorValue(w_seq)]
    /\ w_todo' = w_todo \ {word}
    /\ UNCHANGED <<seq, w_pc, w_seq, r_pc, r_seq1, r_seq2, r_result, r_todo, r_ret,
                   published>>
    /\ UNCHANGED nonSeqLockVars

\* write: `self.seq.store(seq + 2, Release)`
WriteStoreEven ==
    /\ w_pc = "body"
    /\ w_todo = {}
    /\ seq' = w_seq + 2
    /\ published' = published \cup {data}
    /\ w_pc' = "idle"
    /\ w_seq' = 0
    /\ UNCHANGED <<data, w_todo, r_pc, r_seq1, r_seq2, r_result, r_todo, r_ret>>
    /\ UNCHANGED nonSeqLockVars

\* read: `let seq1 = self.seq.load(Acquire); if seq1 & 1 != 0 { continue; }`
ReadLoadSeq1(r) ==
    /\ r_pc[r] \in {"idle", "loop"}
    /\ IF seq % 2 # 0
       THEN /\ r_pc' = [r_pc EXCEPT ![r] = "loop"]
            /\ UNCHANGED <<r_seq1, r_todo>>
       ELSE /\ r_pc' = [r_pc EXCEPT ![r] = "body"]
            /\ r_seq1' = [r_seq1 EXCEPT ![r] = seq]
            /\ r_todo' = [r_todo EXCEPT ![r] = Words \cup {"seq2"}]
    /\ UNCHANGED <<seq, data, w_pc, w_seq, w_todo, r_seq2, r_result, r_ret, published>>
    /\ UNCHANGED nonSeqLockVars

\* read: `let result = f(unsafe { &*self.data.get() })`, one word at a time
ReadWord(r, word) ==
    /\ r_pc[r] = "body"
    /\ ReadEffectEnabled(r_todo[r], word)
    /\ r_result' = [r_result EXCEPT ![r][word] = data[word]]
    /\ r_todo' = [r_todo EXCEPT ![r] = @ \ {word}]
    /\ UNCHANGED <<seq, data, w_pc, w_seq, w_todo, r_pc, r_seq1, r_seq2, r_ret, published>>
    /\ UNCHANGED nonSeqLockVars

\* read: `let seq2 = self.seq.load(Acquire)`
ReadLoadSeq2(r) ==
    /\ r_pc[r] = "body"
    /\ ReadEffectEnabled(r_todo[r], "seq2")
    /\ r_seq2' = [r_seq2 EXCEPT ![r] = seq]
    /\ r_todo' = [r_todo EXCEPT ![r] = @ \ {"seq2"}]
    /\ UNCHANGED <<seq, data, w_pc, w_seq, w_todo, r_pc, r_seq1, r_result, r_ret, published>>
    /\ UNCHANGED nonSeqLockVars

\* read: `if seq1 == seq2 { return result; }` (the locals die with the call)
ReadReturn(r) ==
    /\ r_pc[r] = "body"
    /\ r_todo[r] = {}
    /\ r_seq1[r] = r_seq2[r]
    /\ r_ret' = [r_ret EXCEPT ![r] = r_result[r]]
    /\ r_pc' = [r_pc EXCEPT ![r] = "idle"]
    /\ r_seq1' = [r_seq1 EXCEPT ![r] = 0]
    /\ r_seq2' = [r_seq2 EXCEPT ![r] = 0]
    /\ r_result' = [r_result EXCEPT ![r] = NoRead]
    /\ UNCHANGED <<seq, data, w_pc, w_seq, w_todo, r_todo, published>>
    /\ UNCHANGED nonSeqLockVars

\* read: seq1 != seq2, next iteration of the loop (the locals are reassigned)
ReadRetryKeepsSeq1(r) ==
    /\ r_pc[r] = "body"
    /\ r_todo[r] = {}
    /\ r_seq1[r] # r_seq2[r]
    /\ r_todo' = [r_todo EXCEPT ![r] = Words \cup {"seq2"}]
    /\ r_seq2' = [r_seq2 EXCEPT ![r] = 0]
    /\ r_result' = [r_result EXCEPT ![r] = NoRead]
    /\ UNCHANGED <<seq, data, w_pc, w_seq, w_todo, r_pc, r_seq1, r_ret, published>>
    /\ UNCHANGED nonSeqLockVars
ReadRetry(r) ==
    /\ r_pc[r] = "body"
    /\ r_todo[r] = {}
    /\ r_seq1[r] # r_seq2[r]
    /\ r_pc' = [r_pc EXCEPT ![r] = "loop"]
    /\ r_seq1' = [r_seq1 EXCEPT ![r] = 0]
    /\ r_seq2' = [r_seq2 EXCEPT ![r] = 0]
    /\ r_result' = [r_result EXCEPT ![r] = NoRead]
    /\ UNCHANGED <<seq, data, w_pc, w_seq, w_todo, r_todo, r_ret, published>>
    /\ UNCHANGED nonSeqLockVars

SeqLockNext ==
    \/ WriteLoadSeq
    \/ WriteStoreOdd
    \/ \E word \in Words : WriteMutate(word)
    \/ WriteStoreEven
    \/ \E r \in Readers : ReadLoadSeq1(r)
    \/ \E r \in Readers, word \in Words : ReadWord(r, word)
    \/ \E r \in Readers : ReadLoadSeq2(r)
    \/ \E r \in Readers : ReadReturn(r)
    \/ \E r \in Readers : ReadRetry(r)

(***************************************************************************)
(* MarketDataEngine (incremental updates & snapshots chapter).             *)
(*                                                                         *)
(* The handlers take `&mut self`: each call runs to completion, and is one *)
(* step.  A handler is computed on m = [state, buffer, book, out]; `out`   *)
(* collects what the call reports.  OrderBook's content is its `orders`    *)
(* (the batch the last snapshot added after clear) and its `updates` (the  *)
(* records `self.book.update(msg)` applied since), with last_applied_seq.  *)
(* A snapshot request is the call at the place the source marks            *)
(* `// send_snapshot_request();`.                                          *)
(***************************************************************************)
MsgSeqs == 1 .. MaxSeq
SnapshotSeqs == 0 .. MaxSeq
OrderBatches == {"ordersA", "ordersB"}

IncrementalMsg(s) == [seq |-> s]

ZeroOut == [gaps |-> 0, requests |-> 0, dropped |-> 0, applied |-> 0]

\* MarketDataEngine::new
EngineInit ==
    /\ engine = [state |-> "WaitingForSnapshot",
                 buffer |-> <<>>,
                 book |-> [last_applied_seq |-> 0, orders |-> "none", updates |-> <<>>]]
    /\ out = ZeroOut
    /\ event = [op |-> "new", seq |-> 0]
    /\ base_seq = 0

\* apply_incremental: `msg.seq != self.book.last_applied_seq + 1` is a gap
IsNewerThanCursor(last, s) == s > last
IsContiguous(last, s) == s = last + 1

\* replay_buffer: `msg.seq <= snapshot_seq`
IsStrictlyOlder(s, snapshot_seq) == s < snapshot_seq
IsAtMostNext(s, snapshot_seq) == s <= snapshot_seq + 1
IsInSnapshot(s, snapshot_seq) == s <= snapshot_seq

\* apply_incremental, gap branch: eprintln, state = WaitingForSnapshot,
\* buffer.clear(), send_snapshot_request, return
GapKeepsState(m) ==
    [m EXCEPT !.buffer = <<>>,
              !.out.gaps = @ + 1,
              !.out.requests = @ + 1]
GapReset(m) ==
    [m EXCEPT !.state = "WaitingForSnapshot",
              !.buffer = <<>>,
              !.out.gaps = @ + 1,
              !.out.requests = @ + 1]

apply_incremental(m, msg) ==
    IF ~IsContiguous(m.book.last_applied_seq, msg.seq)
    THEN GapReset(m)
    ELSE [m EXCEPT !.book.updates = Append(@, msg.seq),
                   !.book.last_applied_seq = msg.seq]

\* replay_buffer: `while let Some(msg) = self.buffer.pop_front() { ... }`
RECURSIVE ReplayLoop(_, _)
ReplayLoop(m, snapshot_seq) ==
    IF m.buffer = <<>>
    THEN m
    ELSE LET msg == Head(m.buffer)
             m1 == [m EXCEPT !.buffer = Tail(@)]
         IN  IF IsInSnapshot(msg.seq, snapshot_seq)
             THEN ReplayLoop([m1 EXCEPT !.out.dropped = @ + 1], snapshot_seq)
             ELSE ReplayLoop([apply_incremental(m1, msg) EXCEPT !.out.applied = @ + 1],
                             snapshot_seq)

\* replay_buffer: the loop, then `self.state = State::Realtime`
replay_buffer_stays_replaying(m) == ReplayLoop(m, m.book.last_applied_seq)
replay_buffer(m) ==
    [ReplayLoop(m, m.book.last_applied_seq) EXCEPT !.state = "Realtime"]

\* on_snapshot: clear the book, add the orders, set last_applied_seq, replay
on_snapshot(m, snapshot_seq, orders) ==
    replay_buffer([m EXCEPT !.book = [last_applied_seq |-> snapshot_seq,
                                      orders |-> orders,
                                      updates |-> <<>>],
                            !.state = "Replaying"])

\* on_incremental: buffer while waiting or replaying, apply when realtime
on_incremental_filtering(m, msg) ==
    CASE m.state = "WaitingForSnapshot" ->
             IF msg.seq <= m.book.last_applied_seq
             THEN m
             ELSE [m EXCEPT !.buffer = Append(@, msg)]
      [] m.state = "Realtime" -> apply_incremental(m, msg)
      [] m.state = "Replaying" -> [m EXCEPT !.buffer = Append(@, msg)]
on_incremental(m, msg) ==
    CASE m.state = "WaitingForSnapshot" -> [m EXCEPT !.buffer = Append(@, msg)]
      [] m.state = "Realtime" -> apply_incremental(m, msg)
      [] m.state = "Replaying" -> [m EXCEPT !.buffer = Append(@, msg)]

Call == [state |-> engine.state, buffer |-> engine.buffer, book |-> engine.book,
            out |-> ZeroOut]
Engine(m) == [state |-> m.state, buffer |-> m.buffer, book |-> m.book]

\* the decoder delivers one incremental record
OnIncremental(s) ==
    /\ engine.state = "Realtime" \/ Len(engine.buffer) < MaxBuffer
    /\ LET m == on_incremental(Call, IncrementalMsg(s))
       IN  /\ engine' = Engine(m)
           /\ out' = m.out
    /\ event' = [op |-> "on_incremental", seq |-> s]
    /\ UNCHANGED base_seq
    /\ UNCHANGED nonEngineVars

\* the snapshot transport delivers one snapshot
OnSnapshot(snapshot_seq, orders) ==
    /\ LET m == on_snapshot(Call, snapshot_seq, orders)
       IN  /\ engine' = Engine(m)
           /\ out' = m.out
    /\ event' = [op |-> "on_snapshot", seq |-> snapshot_seq]
    /\ base_seq' = snapshot_seq
    /\ UNCHANGED nonEngineVars

EngineNext ==
    \/ \E s \in MsgSeqs : OnIncremental(s)
    \/ \E snapshot_seq \in SnapshotSeqs, orders \in OrderBatches :
           OnSnapshot(snapshot_seq, orders)

(***************************************************************************)
(* GapDetector (market data chapter) and is_newer (snapshot chapter).      *)
(***************************************************************************)
SeqRange == 2 ^ SeqBits
Seqs == 0 .. SeqRange - 1

\* is_newer's threshold 0x8000_0000: half the range of the counter
HalfRange == 2 ^ (SeqBits - 1)

\* `a.wrapping_sub(b)` in the width of the sequence number
seq_wrapping_sub(a, b) == (a - b + SeqRange) % SeqRange

\* is_newer(a, b): `diff < 0x8000_0000 && diff != 0`
is_newer_inclusive(a, b) ==
    LET diff == seq_wrapping_sub(a, b)
    IN  diff <= HalfRange /\ diff # 0
is_newer(a, b) ==
    LET diff == seq_wrapping_sub(a, b)
    IN  diff < HalfRange /\ diff # 0

\* on_packet: the branch taken for seq against self.next_seq
classify(expected, arrived) ==
    IF arrived > expected THEN "Gap"
    ELSE IF arrived < expected THEN "Duplicate"
    ELSE "InOrder"

\* GapDetector { next_seq: n }
GapInit(n) ==
    /\ next_seq = n
    /\ packet = [expected |-> 0, arrived |-> 0, count |-> 0]
    /\ verdict = "none"

\* on_packet(seq, count): classify, then `self.next_seq = seq + count`
OnPacket(arrived, count) ==
    /\ verdict' = classify(next_seq, arrived)
    /\ next_seq' = (arrived + count) % SeqRange
    /\ packet' = [expected |-> next_seq, arrived |-> arrived, count |-> count]
    /\ UNCHANGED nonGapVars

GapNext == \E arrived \in Seqs, count \in 1 .. MaxCount : OnPacket(arrived, count)

\* is_newer is about to be called with a and b
NewerInit(a, b) ==
    /\ cmp_a = a
    /\ cmp_b = b
    /\ cmp_pc = "call"
    /\ cmp_newer = FALSE

\* the call returns
IsNewerReturns ==
    /\ cmp_pc = "call"
    /\ cmp_newer' = is_newer(cmp_a, cmp_b)
    /\ cmp_pc' = "done"
    /\ UNCHANGED <<cmp_a, cmp_b>>
    /\ UNCHANGED nonNewerVars

(***************************************************************************)
(* DoubleBufferedOrderBook (engine/signals.md).                            *)
(*                                                                         *)
(* An OrderBook copy is the sequence of updates `apply` was called with.   *)
(* The k-th call of update() carries update k.  A reader always reads the  *)
(* front copy: it loads current_index and reads books[current_index].      *)
(* update() does what its body does: the catch-up of step 4 (Apply-Twice,  *)
(* pending_updates) is a comment and a paragraph of text, not code.        *)
(***************************************************************************)
FrontReaders == {"f1", "f2"}

NoView == <<-1>>

\* two identical OrderBook instances, current_index = 0
DoubleBufferInit ==
    /\ books = [i \in {0, 1} |-> <<>>]
    /\ current_index = 0
    /\ u_pc = "idle" /\ back_index = 0 /\ update = 0
    /\ f_pc = [r \in FrontReaders |-> "idle"]
    /\ f_index = [r \in FrontReaders |-> 0]
    /\ f_view = [r \in FrontReaders |-> NoView]
    /\ issued = <<>>

\* update: `let back_index = 1 - self.current_index.load(Relaxed)`
BackIndex(current) == 1 - current

UpdateLoadIndex ==
    /\ u_pc = "idle"
    /\ Len(issued) < MaxUpdates
    /\ update' = Len(issued) + 1
    /\ issued' = Append(issued, Len(issued) + 1)
    /\ back_index' = BackIndex(current_index)
    /\ u_pc' = "apply"
    /\ UNCHANGED <<books, current_index, f_pc, f_index, f_view>>
    /\ UNCHANGED nonDoubleBufferVars

\* update: `self.books[back_index].apply(update)`
UpdateApply ==
    /\ u_pc = "apply"
    /\ books' = [books EXCEPT ![back_index] = Append(@, update)]
    /\ u_pc' = "store"
    /\ UNCHANGED <<current_index, back_index, update, f_pc, f_index, f_view, issued>>
    /\ UNCHANGED nonDoubleBufferVars

\* update: `self.current_index.store(back_index, Release)`, return
UpdateStore ==
    /\ u_pc = "store"
    /\ current_index' = back_index
    /\ u_pc' = "idle"
    /\ back_index' = 0
    /\ update' = 0
    /\ UNCHANGED <<books, f_pc, f_index, f_view, issued>>
    /\ UNCHANGED nonDoubleBufferVars

\* a reader loads current_index and starts reading books[current_index]
FrontLoadIndex(r) ==
    /\ f_pc[r] = "idle"
    /\ f_index' = [f_index EXCEPT ![r] = current_index]
    /\ f_pc' = [f_pc EXCEPT ![r] = "reading"]
    /\ f_view' = [f_view EXCEPT ![r] = NoView]
    /\ UNCHANGED <<books, current_index, u_pc, back_index, update, issued>>
    /\ UNCHANGED nonDoubleBufferVars

\* the reader finishes reading the copy it chose
FrontRead(r) ==
    /\ f_pc[r] = "reading"
    /\ f_view' = [f_view EXCEPT ![r] = books[f_index[r]]]
    /\ f_pc' = [f_pc EXCEPT ![r] = "idle"]
    /\ f_index' = [f_index EXCEPT ![r] = 0]
    /\ UNCHANGED <<books, current_index, u_pc, back_index, update, issued>>
    /\ UNCHANGED nonDoubleBufferVars

DoubleBufferNext ==
    \/ UpdateLoadIndex
    \/ UpdateApply
    \/ UpdateStore
    \/ \E r \in FrontReaders : FrontLoadIndex(r)
    \/ \E r \in FrontReaders : FrontRead(r)

(***************************************************************************)
(* MpscArrayQueue (lock-free queue chapter).                               *)
(***************************************************************************)
Producers == {"p1", "p2"}

\* MpscArrayQueue::new: `capacity.next_power_of_two()`, `mask: capacity - 1`
mpsc_capacity == 2 ^ MpscCapacityLog2
mpsc_mask == mpsc_capacity - 1

\* the result of a call that has not returned
Pending == [tag |-> "none", value |-> 0]
PushOk == [tag |-> "Ok", value |-> 0]
PushErr(v) == [tag |-> "Err", value |-> v]
PopSome(v) == [tag |-> "Some", value |-> v]
PopNone == [tag |-> "None", value |-> 0]

\* new: every slot T::default(), seqs[i] = i, head = tail = 0
MpscInit ==
    /\ q_buffer = [i \in 0 .. mpsc_capacity - 1 |-> 0]
    /\ q_seqs = [i \in 0 .. mpsc_capacity - 1 |-> i]
    /\ q_head = 0
    /\ q_tail = 0
    /\ mp_pc = [p \in Producers |-> "idle"]
    /\ mp_tail = [p \in Producers |-> 0]
    /\ mp_seq = [p \in Producers |-> 0]
    /\ mp_value = [p \in Producers |-> 0]
    /\ mp_result = [p \in Producers |-> Pending]
    /\ mc_pc = "idle"
    /\ mc_head = 0
    /\ mc_seq = 0
    /\ mc_value = 0
    /\ mc_result = Pending
    /\ q_offered = 0
    /\ q_position = [v \in 1 .. MaxOffers |-> -1]
    /\ q_popped = <<>>

\* push(value): `let mut tail = self.tail.load(Relaxed)`
MpscPushLoadTail(p) ==
    /\ mp_pc[p] = "idle"
    /\ q_offered < MaxOffers
    /\ q_offered' = q_offered + 1
    /\ mp_value' = [mp_value EXCEPT ![p] = q_offered + 1]
    /\ mp_tail' = [mp_tail EXCEPT ![p] = q_tail]
    /\ mp_result' = [mp_result EXCEPT ![p] = Pending]
    /\ mp_pc' = [mp_pc EXCEPT ![p] = "load_seq"]
    /\ UNCHANGED <<q_buffer, q_seqs, q_head, q_tail, mp_seq,
                   mc_pc, mc_head, mc_seq, mc_value, mc_result, q_position, q_popped>>
    /\ UNCHANGED nonMpscVars

\* `let index = tail & self.mask; let seq = self.seqs[index].load(Acquire)`
MpscPushLoadSeq(p) ==
    /\ mp_pc[p] = "load_seq"
    /\ mp_seq' = [mp_seq EXCEPT ![p] = q_seqs[BitAnd(mp_tail[p], mpsc_mask)]]
    /\ mp_pc' = [mp_pc EXCEPT ![p] = "branch"]
    /\ UNCHANGED <<q_buffer, q_seqs, q_head, q_tail, mp_tail, mp_value, mp_result,
                   mc_pc, mc_head, mc_seq, mc_value, mc_result,
                   q_offered, q_position, q_popped>>
    /\ UNCHANGED nonMpscVars

\* `let diff = seq as isize - tail as isize` and the three branches on it:
\* compare_exchange(tail, tail + 1) when 0, `return Err(value)` when
\* negative, `tail = self.tail.load(Relaxed)` when positive
MpscPushBranch(p) ==
    /\ mp_pc[p] = "branch"
    /\ LET diff == mp_seq[p] - mp_tail[p]
       IN  CASE diff = 0 ->
                    IF q_tail = mp_tail[p]
                    THEN /\ q_tail' = mp_tail[p] + 1
                         /\ mp_pc' = [mp_pc EXCEPT ![p] = "write"]
                         /\ UNCHANGED <<mp_tail, mp_result>>
                    ELSE /\ mp_tail' = [mp_tail EXCEPT ![p] = q_tail]
                         /\ mp_pc' = [mp_pc EXCEPT ![p] = "load_seq"]
                         /\ UNCHANGED <<q_tail, mp_result>>
             [] diff < 0 ->
                    /\ mp_result' = [mp_result EXCEPT ![p] = PushErr(mp_value[p])]
                    /\ mp_pc' = [mp_pc EXCEPT ![p] = "idle"]
                    /\ UNCHANGED <<q_tail, mp_tail>>
             [] diff > 0 ->
                    /\ mp_tail' = [mp_tail EXCEPT ![p] = q_tail]
                    /\ mp_pc' = [mp_pc EXCEPT ![p] = "load_seq"]
                    /\ UNCHANGED <<q_tail, mp_result>>
    /\ UNCHANGED <<q_buffer, q_seqs, q_head, mp_seq, mp_value,
                   mc_pc, mc_head, mc_seq, mc_value, mc_result,
                   q_offered, q_position, q_popped>>
    /\ UNCHANGED nonMpscVars

\* `unsafe { *self.buffer[index].get() = value; }`
MpscPushWrite(p) ==
    /\ mp_pc[p] = "write"
    /\ q_buffer' = [q_buffer EXCEPT ![BitAnd(mp_tail[p], mpsc_mask)] = mp_value[p]]
    /\ q_position' = [q_position EXCEPT ![mp_value[p]] = mp_tail[p]]
    /\ mp_pc' = [mp_pc EXCEPT ![p] = "store_seq"]
    /\ UNCHANGED <<q_seqs, q_head, q_tail, mp_tail, mp_seq, mp_value, mp_result,
                   mc_pc, mc_head, mc_seq, mc_value, mc_result, q_offered, q_popped>>
    /\ UNCHANGED nonMpscVars

\* `self.seqs[index].store(tail + 1, Release); return Ok(())`
MpscPushStoreSeq(p) ==
    /\ mp_pc[p] = "store_seq"
    /\ q_seqs' = [q_seqs EXCEPT ![BitAnd(mp_tail[p], mpsc_mask)] = mp_tail[p] + 1]
    /\ mp_result' = [mp_result EXCEPT ![p] = PushOk]
    /\ mp_pc' = [mp_pc EXCEPT ![p] = "idle"]
    /\ UNCHANGED <<q_buffer, q_head, q_tail, mp_tail, mp_seq, mp_value,
                   mc_pc, mc_head, mc_seq, mc_value, mc_result,
                   q_offered, q_position, q_popped>>
    /\ UNCHANGED nonMpscVars

\* pop: `head + self.mask + 1`, the slot's sequence number when it is free
\* for the next round
NextRoundSeqShort(h) == h + mpsc_mask
NextRoundSeq(h) == h + mpsc_mask + 1

\* pop(): `let mut head = self.head.load(Relaxed)`
MpscPopLoadHead ==
    /\ mc_pc = "idle"
    /\ mc_head' = q_head
    /\ mc_result' = Pending
    /\ mc_pc' = "load_seq"
    /\ UNCHANGED <<q_buffer, q_seqs, q_head, q_tail,
                   mp_pc, mp_tail, mp_seq, mp_value, mp_result,
                   mc_seq, mc_value, q_offered, q_position, q_popped>>
    /\ UNCHANGED nonMpscVars

\* `let index = head & self.mask; let seq = self.seqs[index].load(Acquire)`
MpscPopLoadSeq ==
    /\ mc_pc = "load_seq"
    /\ mc_seq' = q_seqs[BitAnd(mc_head, mpsc_mask)]
    /\ mc_pc' = "branch"
    /\ UNCHANGED <<q_buffer, q_seqs, q_head, q_tail,
                   mp_pc, mp_tail, mp_seq, mp_value, mp_result,
                   mc_head, mc_value, mc_result, q_offered, q_position, q_popped>>
    /\ UNCHANGED nonMpscVars

\* `let diff = seq as isize - (head + 1) as isize` and the three branches on
\* it: compare_exchange(head, head + 1) when 0, `return None` when negative,
\* `head = self.head.load(Relaxed)` when positive
MpscPopBranch ==
    /\ mc_pc = "branch"
    /\ LET diff == mc_seq - (mc_head + 1)
       IN  CASE diff = 0 ->
                    IF q_head = mc_head
                    THEN /\ q_head' = mc_head + 1
                         /\ mc_pc' = "read"
                         /\ UNCHANGED <<mc_head, mc_result>>
                    ELSE /\ mc_head' = q_head
                         /\ mc_pc' = "load_seq"
                         /\ UNCHANGED <<q_head, mc_result>>
             [] diff < 0 ->
                    /\ mc_result' = PopNone
                    /\ mc_pc' = "idle"
                    /\ UNCHANGED <<q_head, mc_head>>
             [] diff > 0 ->
                    /\ mc_head' = q_head
                    /\ mc_pc' = "load_seq"
                    /\ UNCHANGED <<q_head, mc_result>>
    /\ UNCHANGED <<q_buffer, q_seqs, q_tail,
                   mp_pc, mp_tail, mp_seq, mp_value, mp_result,
                   mc_seq, mc_value, q_offered, q_position, q_popped>>
    /\ UNCHANGED nonMpscVars

\* `let value = unsafe { *self.buffer[index].get() }`
MpscPopRead ==
    /\ mc_pc = "read"
    /\ mc_value' = q_buffer[BitAnd(mc_head, mpsc_mask)]
    /\ mc_pc' = "store_seq"
    /\ UNCHANGED <<q_buffer, q_seqs, q_head, q_tail,
                   mp_pc, mp_tail, mp_seq, mp_value, mp_result,
                   mc_head, mc_seq, mc_result, q_offered, q_position, q_popped>>
    /\ UNCHANGED nonMpscVars

\* `self.seqs[index].store(head + self.mask + 1, Release); return Some(value)`
MpscPopStoreSeq ==
    /\ mc_pc = "store_seq"
    /\ q_seqs' = [q_seqs EXCEPT ![BitAnd(mc_head, mpsc_mask)] = NextRoundSeq(mc_head)]
    /\ q_popped' = Append(q_popped, mc_value)
    /\ mc_result' = PopSome(mc_value)
    /\ mc_pc' = "idle"
    /\ UNCHANGED <<q_buffer, q_head, q_tail,
                   mp_pc, mp_tail, mp_seq, mp_value, mp_result,
                   mc_head, mc_seq, mc_value, q_offered, q_position>>
    /\ UNCHANGED nonMpscVars

MpscNext ==
    \/ \E p \in Producers : MpscPushLoadTail(p)
    \/ \E p \in Producers : MpscPushLoadSeq(p)
    \/ \E p \in Producers : MpscPushBranch(p)
    \/ \E p \in Producers : MpscPushWrite(p)
    \/ \E p \in Producers : MpscPushStoreSeq(p)
    \/ MpscPopLoadHead
    \/ MpscPopLoadSeq
    \/ MpscPopBranch
    \/ MpscPopRead
    \/ MpscPopStoreSeq

(***************************************************************************)
(* Specifications: one per component, all from the state after             *)
(* construction.                                                           *)
(***************************************************************************)
Init ==
    /\ RingInit /\ SeqLockInit /\ EngineInit /\ GapInit(0) /\ NewerInit(0, 0)
    /\ DoubleBufferInit /\ MpscInit

\* a GapDetector may be built with any next_seq
InitGap ==
    /\ RingInit /\ SeqLockInit /\ EngineInit /\ NewerInit(0, 0) /\ DoubleBufferInit
    /\ MpscInit
    /\ \E n \in Seqs : GapInit(n)

\* is_newer may be called with any two sequence numbers
InitIsNewer ==
    /\ RingInit /\ SeqLockInit /\ EngineInit /\ GapInit(0) /\ DoubleBufferInit
    /\ MpscInit
    /\ \E a \in Seqs, b \in Seqs : NewerInit(a, b)

SpecRing == Init /\ [][RingNext]_vars

SpecRingBatch == Init /\ [][RingBatchNext]_vars

\* the same in a build without overflow checks
RingBatchNextWrapping == RingBatchNext /\ c_pc' # "panicked"

SpecRingBatchWrapping == Init /\ [][RingBatchNextWrapping]_vars

SpecSeqLock == Init /\ [][SeqLockNext]_vars

\* the same threads with every effect in program order
SeqLockNextInProgramOrder ==
    /\ SeqLockNext
    /\ (w_pc = "body" /\ w_todo' # w_todo)
           => \E e \in w_todo \ w_todo' : WriteEffectsInProgramOrder(w_todo, e)
    /\ \A r \in Readers :
           r_todo'[r] # r_todo[r] /\ r_pc[r] = "body"
               => \E e \in r_todo[r] \ r_todo'[r] : ReadEffectsInProgramOrder(r_todo[r], e)

SpecSeqLockInProgramOrder == Init /\ [][SeqLockNextInProgramOrder]_vars

SpecEngine == Init /\ [][EngineNext]_vars

SpecGap == InitGap /\ [][GapNext]_vars

SpecIsNewer == InitIsNewer /\ [][IsNewerReturns]_vars

SpecDoubleBuffer == Init /\ [][DoubleBufferNext]_vars

SpecMpsc == Init /\ [][MpscNext]_vars

\* ConcurrentReplica: the data is published through one of the two designs,
\* never a mix of them
ReplicaNext ==
    \/ DoubleBufferInit /\ SeqLockNext
    \/ SeqLockInit /\ DoubleBufferNext

SpecReplica == Init /\ [][ReplicaNext]_vars

(***************************************************************************)
(* Claims about SpscRingBuffer (SpecRing).                                 *)
(***************************************************************************)
\* number of records published and not yet consumed
Occupancy == wrapping_sub(head, tail)

\* slots that hold a published, not yet consumed record
UnconsumedSlots == {BitAnd(wrapping_add(tail, i), mask) : i \in 0 .. Occupancy - 1}

\* C1: for every interleaving of the producer's try_push steps and the
\* consumer's try_pop steps, the values returned by successful try_pop calls
\* are a prefix of the values accepted by successful try_push calls, and the
\* accepted values not yet returned are still stored, in order, in the slots
\* tail .. head-1: nothing is lost, duplicated or reordered.
C1_FifoPrefix ==
    /\ Len(popped) <= Len(pushed)
    /\ popped = SubSeq(pushed, 1, Len(popped))
    /\ Occupancy = Len(pushed) - Len(popped)
    /\ \A i \in 1 .. Occupancy :
           buffer[BitAnd(wrapping_add(tail, i - 1), mask)] = pushed[Len(popped) + i]

\* C1 witness: more records than the capacity went through the channel, with
\* different values, while the producer is in the middle of a try_push.
C1_Witness ==
    /\ Len(popped) > capacity
    /\ popped[1] # popped[2]
    /\ p_pc = "store_head"
    /\ c_pc = "idle"

\* C2: a try_push that finds `capacity` unconsumed records returns
\* Err(value) with the value it was given and leaves head, tail and every slot
\* unchanged; and no step ever writes a slot holding an unconsumed record.
C2_FullIsRejected ==
    [][ /\ (p_pc = "check" /\ Occupancy = capacity /\ p_pc' # p_pc)
            => /\ p_result' = Err(p_value)
               /\ p_pc' = "idle"
               /\ UNCHANGED <<head, tail, buffer>>
        /\ \A i \in DOMAIN buffer :
               buffer'[i] # buffer[i] => i \notin UnconsumedSlots ]_vars

\* C2 witness: try_push has just returned Err on a channel that is full.
C2_Witness ==
    /\ p_result.tag = "Err"
    /\ p_result.value = p_value
    /\ p_pc = "idle"
    /\ Occupancy = capacity

\* the producer has passed the full check and has the slot at its head
\* until it stores head
ProducerInSlot(i) ==
    /\ p_pc \in {"check", "store_head"}
    /\ ~IsFull(p_head, p_tail)
    /\ PushIndex(p_head) = i

\* the consumer has passed the empty check and has the slot at its tail
\* until it stores tail
ConsumerInSlot(i) ==
    /\ c_pc \in {"check", "store_tail"}
    /\ ~IsEmpty(c_tail, c_head)
    /\ PopIndex(c_tail, c_head) = i

\* C18: no slot is held by the producer (writing) and the consumer (reading)
\* at once, and the producer writes a slot only when it holds no unconsumed
\* value, that is, after the tail store that released it.
C18_SlotHasOneOwner ==
    /\ [](\A i \in DOMAIN buffer : ~(ProducerInSlot(i) /\ ConsumerInSlot(i)))
    /\ [][ (p_pc = "check" /\ p_pc' = "store_head")
             => PushIndex(p_head) \notin UnconsumedSlots ]_vars

\* C18 witness: both sides are inside a slot at once, the producer in a slot
\* that was used and released before.
C18_Witness ==
    /\ p_pc = "store_head"
    /\ c_pc = "store_tail"
    /\ \E i, j \in DOMAIN buffer : i # j /\ ProducerInSlot(i) /\ ConsumerInSlot(j)
    /\ Len(popped) >= capacity

\* C31: the number of unconsumed records, (head - tail) mod 2^w, is always
\* between 0 and capacity; only a step of the producer changes head and only a
\* step of the consumer changes tail; a try_push that returns Ok leaves head
\* advanced by exactly 1 and a try_pop that returns Some leaves tail advanced
\* by exactly 1, and the calls that return Err or None move neither.
C31_CursorsAdvanceByOne ==
    /\ [](Occupancy \in 0 .. capacity)
    /\ [][ /\ head' # head
               => /\ p_pc = "store_head" /\ p_pc' = "idle"
                  /\ UNCHANGED <<c_pc, tail>>
           /\ tail' # tail
               => /\ c_pc = "store_tail" /\ c_pc' = "idle"
                  /\ UNCHANGED <<p_pc, head>>
           /\ (p_pc # "idle" /\ p_pc' = "idle")
               => head' = (IF p_result'.tag = "Ok" THEN (head + 1) % Modulus ELSE head)
           /\ (c_pc # "idle" /\ c_pc' = "idle")
               => tail' = (IF c_result'.tag = "Some" THEN (tail + 1) % Modulus ELSE tail)
         ]_vars

\* C31 witness: the channel is full with head already wrapped past the
\* counter's range and tail not yet, just after a successful try_push.
C31_Witness ==
    /\ head < tail
    /\ Occupancy = capacity
    /\ p_pc = "idle"
    /\ p_result.tag = "Ok"

\* C32: try_pop returns None only when the head it loaded equals tail, and at
\* that load no published record was unconsumed; returning None changes
\* neither tail nor any slot.  A try_pop that goes on reads a slot that holds
\* a published, unconsumed record: the oldest one, never an unwritten slot.
C32_NoneOnlyWhenEmpty ==
    [][ /\ (c_pc = "load_head" /\ c_pc' = "check" /\ c_head' = c_tail)
            => Occupancy = 0
        /\ (c_pc = "check" /\ c_pc' = "idle")
            => /\ c_result' = None
               /\ c_head = c_tail
               /\ c_tail = tail
               /\ UNCHANGED <<tail, buffer>>
        /\ (c_pc = "check" /\ c_pc' = "store_tail")
            => /\ Len(popped) < Len(pushed)
               /\ PopIndex(c_tail, c_head) \in UnconsumedSlots
               /\ c_value' = pushed[Len(popped) + 1]
               /\ c_value' # "uninit" ]_vars

\* C32 witness: try_pop has returned None on a channel that had been used and
\* drained, and the producer has published a record since the head load.
C32_Witness ==
    /\ c_pc = "idle"
    /\ c_result = None
    /\ Len(popped) >= 1
    /\ Occupancy >= 1

\* C33: the counters stand for the true numbers of pushes and pops modulo
\* the counter range, and across the wrap head.wrapping_sub(tail) is still the
\* number of unconsumed records, the full and empty checks decide by that
\* number, and counter & mask visits the slots in cyclic order.
C33_WrapKeepsCountAndOrder ==
    /\ [](/\ head = Len(pushed) % Modulus
          /\ tail = Len(popped) % Modulus
          /\ Occupancy = Len(pushed) - Len(popped))
    /\ [][ /\ (p_pc = "load_tail" /\ p_pc' = "check")
               => (IsFull(p_head', p_tail') <=> Len(pushed) - Len(popped) = capacity)
           /\ (c_pc = "load_head" /\ c_pc' = "check")
               => (IsEmpty(c_tail', c_head') <=> Len(pushed) = Len(popped))
           /\ (p_pc = "check" /\ p_pc' = "store_head")
               => /\ PushIndex(p_head) = Len(pushed) % capacity
                  /\ buffer'[Len(pushed) % capacity] = p_value
           /\ (c_pc = "check" /\ c_pc' = "store_tail")
               => /\ PopIndex(c_tail, c_head) = Len(popped) % capacity
                  /\ c_value' = pushed[Len(popped) + 1] ]_vars

\* C33 witness: head has wrapped to a value below tail, the channel holds one
\* record, and the consumer has just read it from its slot.
C33_Witness ==
    /\ Len(pushed) >= Modulus
    /\ head < tail
    /\ c_pc = "store_tail"
    /\ c_value = pushed[Len(popped) + 1]
    /\ Occupancy = 1

\* the consumer is inside consume_batch, past its load of head
InBatch == c_pc \in {"batch_check", "batch_loop"}

\* the slots of the records consume_batch found published
BatchSlots == {BitAnd(wrapping_add(c_tail, k), mask) : k \in 0 .. available - 1}

\* C34: consume_batch finds exactly the records published when it loads
\* head, hands them to the handler in FIFO order, each once, then advances tail
\* by their number with one store and returns that number, which is what that
\* many try_pop calls would have done; while it runs no slot of those records
\* is written; and it completes also when tail + i crosses the wrap point of
\* the counter.
C34_BatchIsManyPops ==
    /\ [](c_pc # "panicked")
    /\ [][ /\ (c_pc = "batch_load_head" /\ c_pc' = "batch_check")
               => available' = Len(pushed) - Len(popped)
           /\ (InBatch /\ c_pc' = "idle")
               => /\ b_handled = SubSeq(pushed, Len(popped) + 1, Len(popped) + available)
                  /\ popped' = SubSeq(pushed, 1, Len(popped) + available)
                  /\ tail' = (tail + available) % Modulus
                  /\ b_result' = available
           /\ (InBatch /\ c_pc' # "idle") => tail' = tail
           /\ InBatch => \A i \in DOMAIN buffer :
                             buffer'[i] # buffer[i] => i \notin BatchSlots ]_vars

(***************************************************************************)
(* Claims about SeqLock (SpecSeqLock).                                     *)
(***************************************************************************)
\* C3: every value returned by read equals the data left by a completed
\* write (or by new): a result the accessor computed while a write overlapped
\* it is never returned.
C3_NoTornRead ==
    \A r \in Readers : r_ret[r] = NoRead \/ r_ret[r] \in published

\* a write is in progress: some effect of its body has taken place and its
\* final store has not
WriteInProgress == w_pc = "body" /\ w_todo # {"seq_odd"} \cup Words

\* C29: the counter is odd exactly while a write is in progress and even
\* otherwise; it never decreases; a completed write leaves it 2 above the value
\* the write started from; a read returns only when the two counter values it
\* loaded are equal and even.
C29_CounterTracksWrites ==
    /\ [](seq % 2 = 1 <=> WriteInProgress)
    /\ [][ /\ seq' >= seq
           /\ (w_pc = "body" /\ w_pc' = "idle") => seq' = w_seq + 2
           /\ \A r \in Readers :
                  (r_pc[r] = "body" /\ r_pc'[r] = "idle")
                      => r_seq1[r] = r_seq2[r] /\ r_seq1[r] % 2 = 0 ]_vars

\* the state left by the k-th completed write (k = 0: by new)
VersionState(k) == [a |-> k, b |-> k]

\* C38: reads are fresh and monotonic.  A read returns the state left by a
\* completed write, one no older than the last write completed when the
\* read's final pass loaded seq (the read had begun by then), and a reader
\* never returns an older version after a newer one.
C38_ReadsAreFreshAndMonotonic ==
    [][ \A r \in Readers :
            (r_pc[r] = "body" /\ r_pc'[r] = "idle")
                => \E k \in 0 .. MaxWrites :
                       /\ r_ret'[r] = VersionState(k)
                       /\ k >= r_seq1[r] \div 2
                       /\ r_ret[r] # NoRead
                              => /\ k >= r_ret[r].a
                                 /\ k >= r_ret[r].b ]_vars

(***************************************************************************)
(* Claims about MarketDataEngine (SpecEngine).                             *)
(***************************************************************************)
\* the sequence cursor
Cursor == engine.book.last_applied_seq

\* the records of a backlog that a snapshot with last_applied_sequence L does
\* not already include
NonDuplicates(backlog, L) == SelectSeq(backlog, LAMBDA msg : msg.seq > L)

\* consecutive records of q between which a record is missing
HasInternalGap(q) == \E i \in 1 .. Len(q) - 1 : q[i + 1].seq > q[i].seq + 1

\* q holds the records s, s+1, .., t
IsContiguousRun(q) == \A i \in 1 .. Len(q) - 1 : q[i + 1].seq = q[i].seq + 1

\* C4: the records applied since the last snapshot (last_applied_sequence L)
\* are exactly L+1 .. cursor, each once and in increasing order; and the
\* cursor changes only by +1 when on_incremental applies the record cursor+1,
\* or in on_snapshot, which overwrites it with L before replaying.
C4_AppliedIsContiguousPrefix ==
    /\ [](/\ Cursor >= base_seq
          /\ engine.book.updates = [i \in 1 .. Cursor - base_seq |-> base_seq + i])
    /\ [][ Cursor' # Cursor =>
             \/ /\ event'.op = "on_incremental"
                /\ event'.seq = Cursor + 1
                /\ Cursor' = Cursor + 1
                /\ engine'.book.updates = Append(engine.book.updates, event'.seq)
                /\ base_seq' = base_seq
             \/ /\ event'.op = "on_snapshot"
                /\ base_seq' = event'.seq
                /\ Cursor' = event'.seq + Len(engine'.book.updates) ]_vars

\* C4 witness: a replay applied a record on top of a snapshot, and a record
\* was then applied live.
C4_Witness ==
    /\ engine.state = "Realtime"
    /\ event.op = "on_incremental"
    /\ base_seq >= 1
    /\ Len(engine.book.updates) >= 2
    /\ out.gaps = 0

\* C5: contiguous records s..t buffered while waiting, then a snapshot with
\* s <= L < t: replay drops exactly the records <= L (L - s + 1 of them),
\* applies exactly L+1 .. t in order, and ends with cursor = t, an empty
\* buffer and state Realtime.
C5_ReplayDropsAndApplies ==
    [][ LET backlog == engine.buffer
            L == event'.seq
            s == backlog[1].seq
            t == backlog[Len(backlog)].seq
        IN  ( /\ event'.op = "on_snapshot"
              /\ engine.state = "WaitingForSnapshot"
              /\ backlog # <<>>
              /\ IsContiguousRun(backlog)
              /\ s <= L /\ L < t )
            => /\ engine'.state = "Realtime"
               /\ engine'.buffer = <<>>
               /\ Cursor' = t
               /\ out'.dropped = L - s + 1
               /\ out'.applied = t - L
               /\ out'.gaps = 0
               /\ engine'.book.updates = [i \in 1 .. t - L |-> L + i] ]_vars

\* C5 witness: a replay has dropped a record and applied two.
C5_Witness ==
    /\ event.op = "on_snapshot"
    /\ engine.state = "Realtime"
    /\ out.dropped >= 1
    /\ out.applied >= 2
    /\ out.gaps = 0
    /\ Cursor = event.seq + 2

C7_ReplayGapEndsAwaiting ==
    [][ ( /\ event'.op = "on_snapshot"
          /\ HasInternalGap(NonDuplicates(engine.buffer, event'.seq)) )
        => /\ engine'.state = "WaitingForSnapshot"
           /\ engine'.buffer = <<>>
           /\ out'.requests >= 1 ]_vars

\* C8: in every state of the engine a record with sequence <= cursor is a
\* no-op: state, cursor, book and buffer are unchanged, no gap is reported and
\* no snapshot is requested.
C8_DuplicateIsNoOp ==
    [][ ( event'.op = "on_incremental" /\ event'.seq <= Cursor )
        => /\ engine' = engine
           /\ out'.gaps = 0
           /\ out'.requests = 0 ]_vars

\* C9: a snapshot delivered in Replaying or Realtime whose
\* last_applied_sequence is not newer than the cursor is ignored: state,
\* buffer, book and cursor are unchanged.
C9_StaleSnapshotIgnored ==
    [][ ( /\ event'.op = "on_snapshot"
          /\ engine.state \in {"Replaying", "Realtime"}
          /\ event'.seq <= Cursor )
        => engine' = engine ]_vars

\* the sequence numbers a run of records carries
SeqSet(q) == {q[i].seq : i \in 1 .. Len(q)}

\* C12: the replica a reader finds once on_snapshot has run is never a
\* partially replayed one: it is the replica as it was before the snapshot
\* arrived, or the snapshot with the whole replay applied (every sequence
\* number buffered beyond the snapshot is in it).  A replica on which some
\* but not all of those records were replayed is what the claim excludes.
C12_SnapshotAndReplayAreOneUnit ==
    [][ event'.op = "on_snapshot"
        => LET replay == NonDuplicates(engine.buffer, event'.seq)
           IN  \/ engine'.book = engine.book
               \/ engine'.book.updates = <<>>
               \/ {engine'.book.updates[i] : i \in 1 .. Len(engine'.book.updates)}
                      = SeqSet(replay) ]_vars

\* C13: a record that arrives in WaitingForSnapshot when the buffer already
\* holds its full capacity is rejected, not absorbed: the buffer is left as
\* it was, a snapshot request is sent and the state stays WaitingForSnapshot.
C13_OverflowIsRejected ==
    [][ ( /\ event'.op = "on_incremental"
          /\ engine.state = "WaitingForSnapshot"
          /\ Len(engine.buffer) >= ReservedCapacity )
        => /\ engine'.buffer = engine.buffer
           /\ out'.requests = 1
           /\ engine'.state = "WaitingForSnapshot" ]_vars

\* the records of q delivered one by one to on_incremental
RECURSIVE LiveApply(_, _)
LiveApply(m, q) ==
    IF q = <<>> THEN m ELSE LiveApply(on_incremental(m, Head(q)), Tail(q))

\* C14: replay/live equivalence.  When the buffered backlog is a gap-free run
\* that reaches beyond the snapshot (its first record is at most L+1), the
\* book and cursor on_snapshot leaves are those that delivering the records
\* newer than L one by one to on_incremental in Realtime leaves, starting from
\* the book of the snapshot alone.  And both ways of reaching sequence t end
\* with cursor t: a snapshot with last_applied_seq = t and nothing to replay,
\* and a record t applied in Realtime.
C14_ReplayLiveEquivalence ==
    [][ LET backlog == engine.buffer
            L == event'.seq
            replay == NonDuplicates(backlog, L)
            snapshot_only == [Call EXCEPT !.state = "Realtime",
                                          !.buffer = <<>>,
                                          !.book = [last_applied_seq |-> L,
                                                    orders |-> engine'.book.orders,
                                                    updates |-> <<>>]]
            live == LiveApply(snapshot_only, replay)
        IN  /\ ( /\ event'.op = "on_snapshot"
                 /\ IsContiguousRun(backlog)
                 /\ replay # <<>>
                 /\ replay[1].seq = L + 1 )
               => /\ engine'.book = live.book
                  /\ engine'.state = live.state
                  /\ Cursor' = replay[Len(replay)].seq
            /\ ( event'.op = "on_snapshot" /\ replay = <<>> )
               => Cursor' = L /\ engine'.book.updates = <<>>
            /\ ( /\ event'.op = "on_incremental"
                 /\ engine.state = "Realtime"
                 /\ event'.seq = Cursor + 1 )
               => Cursor' = event'.seq ]_vars

\* C14 witness: a replay has applied two records of a gap-free backlog that
\* held nothing older than the snapshot.
C14_Witness ==
    /\ event.op = "on_snapshot"
    /\ engine.state = "Realtime"
    /\ out.dropped = 0
    /\ out.applied >= 2
    /\ out.gaps = 0
    /\ engine.book.updates = <<event.seq + 1, event.seq + 2>>

\* C15: a snapshot delivered a second time right after its first delivery
\* (same last_applied_seq, same orders, no call in between) leaves the book,
\* cursor, buffer and state as the first delivery left them.
C15_SnapshotTwiceIsOnce ==
    [][ ( /\ event.op = "on_snapshot"
          /\ event'.op = "on_snapshot"
          /\ event'.seq = event.seq
          /\ engine'.book.orders = engine.book.orders )
        => engine' = engine ]_vars

\* C21: the engine starts in WaitingForSnapshot, and in WaitingForSnapshot
\* every record delivered, whatever its sequence, is appended to the buffer
\* and nothing else changes: book, cursor and state stay as they were, no gap
\* is reported, nothing is requested, dropped or applied.
C21_WaitingBuffersEverything ==
    /\ engine.state = "WaitingForSnapshot"
    /\ [][ ( event'.op = "on_incremental" /\ engine.state = "WaitingForSnapshot" )
           => /\ engine'.buffer = Append(engine.buffer, IncrementalMsg(event'.seq))
              /\ engine'.book = engine.book
              /\ engine'.state = "WaitingForSnapshot"
              /\ out' = ZeroOut ]_vars

\* C21 witness: waiting again after records were applied, the buffer holds a
\* record that is not newer than the cursor.
C21_Witness ==
    /\ engine.state = "WaitingForSnapshot"
    /\ event.op = "on_incremental"
    /\ Cursor >= 1
    /\ Len(engine.buffer) >= 2
    /\ engine.buffer[Len(engine.buffer)].seq <= Cursor

\* a call that ends in WaitingForSnapshot having left it or having replayed
EntersWaiting ==
    /\ engine'.state = "WaitingForSnapshot"
    /\ engine.state # "WaitingForSnapshot" \/ event'.op = "on_snapshot"

\* C22: a call sends exactly one snapshot request when it enters
\* WaitingForSnapshot (after a gap in Realtime, after a gap during replay) and
\* none otherwise: requests and entries go together, one for one.
C22_OneRequestPerEntry ==
    [][ out'.requests = (IF EntersWaiting THEN 1 ELSE 0) ]_vars

\* on_snapshot sets Replaying and replay_buffer leaves it within the same
\* call: between two calls the engine is never found in Replaying, and in
\* Realtime its buffer is empty.
ReplayingIsNeverObserved ==
    /\ engine.state # "Replaying"
    /\ engine.state = "Realtime" => engine.buffer = <<>>

\* C24: between a snapshot request and the application of the snapshot no
\* arriving record is dropped or applied early.  A record delivered when the
\* last call has just sent a request, or while the engine is waiting for a
\* snapshot, is appended to the buffer behind the records that arrived
\* before it, and the book is not touched.
C24_WindowRecordsAreBuffered ==
    [][ ( /\ event'.op = "on_incremental"
          /\ out.requests >= 1 \/ engine.state = "WaitingForSnapshot" )
        => /\ engine'.buffer = Append(engine.buffer, IncrementalMsg(event'.seq))
           /\ engine'.book = engine.book ]_vars

\* the states of `enum State`
States == {"WaitingForSnapshot", "Replaying", "Realtime"}

ReplayFilterClass(s) ==
    LET m == on_snapshot([Call EXCEPT !.buffer = <<IncrementalMsg(s)>>],
                         Cursor, engine.book.orders)
    IN  IF m.out.dropped = 1 THEN "duplicate"
        ELSE IF m.out.gaps = 1 THEN "ahead"
        ELSE "in_order"

\* what the live path does with the same record at the same cursor
LiveApplyClass(s) ==
    LET m == on_incremental([Call EXCEPT !.state = "Realtime"], IncrementalMsg(s))
    IN  IF m.out.dropped = 1 THEN "duplicate"
        ELSE IF m.out.gaps = 1 THEN "ahead"
        ELSE "in_order"

\* C26: for every cursor value and record sequence the replay filter and the
\* live-apply check put the record in the same class: duplicate, in order or
\* ahead.
C26_SameClassInBothPaths ==
    \A s \in MsgSeqs : ReplayFilterClass(s) = LiveApplyClass(s)

\* C27: during replay a drained record that is ahead of the cursor, the first
\* record newer than the snapshot in particular, is applied and the cursor is
\* set to its sequence; it does not abort the replay.
C27_AheadRecordIsApplied ==
    [][ LET replay == NonDuplicates(engine.buffer, event'.seq)
        IN  ( /\ event'.op = "on_snapshot"
              /\ replay # <<>>
              /\ replay[1].seq > event'.seq + 1 )
            => /\ engine'.book.updates # <<>>
               /\ engine'.book.updates[1] = replay[1].seq
               /\ Len(replay) = 1 => engine'.book.last_applied_seq = replay[1].seq ]_vars

\* C35: the record whose arrival reveals a gap in Realtime is kept for the
\* replay: when the call returns, the engine waits for a snapshot, the request
\* is out, and the record is the last one of the buffer.
C35_GapRecordIsRetained ==
    [][ ( /\ event'.op = "on_incremental"
          /\ engine.state = "Realtime"
          /\ event'.seq > Cursor + 1 )
        => /\ engine'.state = "WaitingForSnapshot"
           /\ out'.requests = 1
           /\ engine'.buffer # <<>>
           /\ engine'.buffer[Len(engine'.buffer)].seq = event'.seq ]_vars

(***************************************************************************)
(* Claims about GapDetector (SpecGap).                                     *)
(***************************************************************************)
\* the classification by wrapping difference, threshold half the range
WrappingClass(expected, arrived) ==
    LET diff == seq_wrapping_sub(arrived, expected)
    IN  IF diff = 0 THEN "InOrder"
        ELSE IF diff >= HalfRange THEN "Duplicate"
        ELSE "Gap"

\* C10: for every expected and arrived, on_packet takes the InOrder branch
\* when arrived = expected, the Duplicate branch when (arrived - expected) mod
\* 2^w is in [2^(w-1), 2^w), and the Gap branch when it is in [1, 2^(w-1)).
C10_ClassifyIsWrapping ==
    verdict # "none" => verdict = WrappingClass(packet.expected, packet.arrived)

\* C11: an arrival that is ahead of the expected sequence across the wrap
\* point (numerically smaller, wrapping difference in [1, 2^(w-1)), as
\* is_newer computes it) never takes on_packet's Duplicate branch.
C11_WrapAheadNotDuplicate ==
    ( /\ verdict # "none"
      /\ packet.arrived < packet.expected
      /\ is_newer(packet.arrived, packet.expected) )
        => verdict # "Duplicate"

\* C36: on_packet never moves next_seq backward (the wrap of the counter
\* aside): next_seq does not decrease, and a stale or duplicate packet, one
\* whose messages are all below next_seq, leaves it as it is.
C36_NextSeqNeverGoesBack ==
    [][ packet'.arrived + packet'.count < SeqRange
        => /\ next_seq' >= next_seq
           /\ packet'.arrived + packet'.count <= next_seq => next_seq' = next_seq ]_vars

(***************************************************************************)
(* Claims about is_newer (SpecIsNewer).                                    *)
(***************************************************************************)
\* C37: for all a and b of the counter's width, is_newer(a, b) holds exactly
\* when (a - b) mod 2^w is in [1, 2^(w-1)); it is irreflexive and asymmetric,
\* and when a and b are exactly 2^(w-1) apart neither is newer than the other.
C37_IsNewerIsHalfRangeOrder ==
    cmp_pc = "done"
        => /\ cmp_newer <=> ((cmp_a - cmp_b) % SeqRange \in 1 .. HalfRange - 1)
           /\ cmp_a = cmp_b => ~cmp_newer
           /\ cmp_newer => ~is_newer(cmp_b, cmp_a)
           /\ (cmp_a - cmp_b) % SeqRange = HalfRange
                  => ~cmp_newer /\ ~is_newer(cmp_b, cmp_a)

\* C37 witness: a is newer than b across the wrap point, at the largest
\* distance that still counts as newer.
C37_Witness ==
    /\ cmp_pc = "done"
    /\ cmp_newer
    /\ cmp_a < cmp_b
    /\ cmp_b - cmp_a = HalfRange + 1

(***************************************************************************)
(* Claims about DoubleBufferedOrderBook (SpecDoubleBuffer).                *)
(***************************************************************************)
\* C16: once update() has returned, the copy readers see (books at
\* current_index) holds every update issued so far, in order.
C16_VisibleCopyHasEveryUpdate ==
    u_pc = "idle" => books[current_index] = issued

\* C17: the writer never applies an update to a copy a reader is reading: no
\* step changes books[i] while a reader that loaded current_index = i is
\* still reading books[i].
C17_NoMutationUnderReader ==
    [][ \A i \in {0, 1} :
            books'[i] # books[i]
                => \A r \in FrontReaders : ~(f_pc[r] = "reading" /\ f_index[r] = i) ]_vars

(***************************************************************************)
(* Claims about the writer and the readers of either design (SpecReplica). *)
(***************************************************************************)
\* steps SeqLock::write has left: its effects not yet performed and the
\* final store
WriteRemaining == IF w_pc = "idle" THEN 0 ELSE Cardinality(w_todo) + 1

\* steps DoubleBufferedOrderBook::update has left
UpdateRemaining ==
    CASE u_pc = "idle" -> 0
      [] u_pc = "apply" -> 2
      [] u_pc = "store" -> 1

\* a step of the writer inside write / inside update
WriteStep == WriteStoreOdd \/ (\E word \in Words : WriteMutate(word)) \/ WriteStoreEven
UpdateStep == UpdateApply \/ UpdateStore

\* C19: readers never block the writer.  Whatever the readers are doing
\* (idle, mid-read, stalled), a write or update in progress always has a
\* step of the writer enabled, every step the writer takes brings it one
\* step closer to completion, and nothing moves it back: the call completes in
\* a fixed number of the writer's own steps.
C19_ReadersNeverBlockWriter ==
    /\ [](w_pc = "body" => ENABLED WriteStep)
    /\ [](u_pc # "idle" => ENABLED UpdateStep)
    /\ [][ /\ (w_pc = "body" /\ <<w_pc, w_todo, seq, data>>' # <<w_pc, w_todo, seq, data>>)
               => WriteRemaining' = WriteRemaining - 1
           /\ (u_pc # "idle" /\ <<u_pc, books, current_index>>' # <<u_pc, books, current_index>>)
               => UpdateRemaining' = UpdateRemaining - 1
           /\ WriteRemaining' <= WriteRemaining \/ w_pc = "idle"
           /\ UpdateRemaining' <= UpdateRemaining \/ u_pc = "idle" ]_vars

\* C19 witness: the writer is at the last step of a write while every reader
\* is in the middle of a read.
C19_Witness ==
    /\ w_pc = "body"
    /\ w_todo = {}
    /\ \A r \in Readers : r_pc[r] = "body" /\ r_todo[r] # {}

\* a step of reader r inside read
ReadStep(r) ==
    \/ ReadLoadSeq1(r)
    \/ \E word \in Words : ReadWord(r, word)
    \/ ReadLoadSeq2(r)
    \/ ReadReturn(r)
    \/ ReadRetry(r)

\* C20: reads never block, even when the writer is suspended in the middle
\* of a write: a reader inside read always has a step of its own that changes
\* the state, so it never depends on a step of the writer to go on.
C20_ReadNeverNeedsWriter ==
    \A r \in Readers : r_pc[r] # "idle" => ENABLED <<ReadStep(r)>>_vars

\* C20 as amended: a reader inside read has a step of its own that changes
\* the state whenever seq is even; it spins (stays at the top of the loop)
\* only on an odd seq, starts over only when its two loads of seq differ, and
\* returns its result as soon as they agree.
C20_ReadWaitsOnlyOnOddSeq ==
    /\ [](\A r \in Readers :
             (r_pc[r] # "idle" /\ seq % 2 = 0) => ENABLED <<ReadStep(r)>>_vars)
    /\ [][ \A r \in Readers :
             /\ (r_pc[r] = "idle" /\ r_pc'[r] = "loop") => seq % 2 = 1
             /\ (r_pc[r] = "body" /\ r_pc'[r] = "loop") => r_seq1[r] # r_seq2[r]
             /\ (r_pc[r] = "body" /\ r_todo[r] = {} /\ r_seq1[r] = r_seq2[r]
                    /\ r_pc'[r] # r_pc[r])
                  => r_pc'[r] = "idle" /\ r_ret'[r] = r_result[r] ]_vars

\* C20 witness: a reader whose two loads of seq differ is about to start
\* over, with the write that disturbed it complete.
C20_Witness ==
    /\ w_pc = "idle"
    /\ seq % 2 = 0
    /\ \E r \in Readers :
           r_pc[r] = "body" /\ r_todo[r] = {} /\ r_seq1[r] # r_seq2[r]


(***************************************************************************)
(* Termination of SeqLock::read (SpecSeqLockFair).                         *)
(***************************************************************************)
\* the reader whose read is followed; the other reader stays out, since a
\* reader writes nothing another thread reads
FollowedReader == "r1"

\* the writer and the followed reader
SeqLockNextOneReader ==
    /\ SeqLockNext
    /\ \A r \in Readers \ {FollowedReader} : r_pc'[r] = "idle"

\* the two threads, each scheduled again and again: a write that has started
\* takes its remaining steps, and so does the reader
SpecSeqLockFair ==
    /\ Init
    /\ [][SeqLockNextOneReader]_vars
    /\ WF_vars(WriteStep)
    /\ WF_vars(ReadStep(FollowedReader))

PoppedValues == {q_popped[i] : i \in 1 .. Len(q_popped)}

\* producer p has won the compare_exchange and has not finished its slot
HoldsSlot(p) == mp_pc[p] \in {"write", "store_seq"}

\* the value written at `position`, not returned by pop yet, is in its slot
UnconsumedAt(position) ==
    \E v \in 1 .. MaxOffers :
        /\ q_position[v] = position
        /\ v \notin PoppedValues
        /\ q_buffer[BitAnd(position, mpsc_mask)] = v

\* every value pop has returned was pushed, and pop returns the values in the
\* order of their positions, each once; a written value not yet returned is
\* still in its slot
MpscEachValueOnce ==
    /\ \A i \in 1 .. Len(q_popped) :
           q_popped[i] \in 1 .. MaxOffers /\ q_position[q_popped[i]] = i - 1
    /\ \A v, w \in 1 .. MaxOffers :
           (q_position[v] >= 0 /\ q_position[v] = q_position[w]) => v = w
    /\ \A v \in 1 .. MaxOffers :
           (q_position[v] >= Len(q_popped) /\ ~(mc_pc = "store_seq" /\ mc_value = v))
               => q_buffer[BitAnd(q_position[v], mpsc_mask)] = v

\* no two producers hold the same slot
MpscOneWriterPerSlot ==
    \A p, q \in Producers :
        (p # q /\ HoldsSlot(p) /\ HoldsSlot(q))
            => BitAnd(mp_tail[p], mpsc_mask) # BitAnd(mp_tail[q], mpsc_mask)

\* a write replaces only the initial value or a value the consumer has read
MpscNoOverwriteBeforeRead ==
    \A i \in DOMAIN q_buffer :
        q_buffer'[i] # q_buffer[i]
            => q_buffer[i] = 0 \/ q_buffer[i] \in PoppedValues
               \/ (mc_pc = "store_seq" /\ mc_value = q_buffer[i])

\* the queue's capacity is used up: as many positions are claimed by
\* producers and not yet released by the consumer as there are slots
MpscFull == q_tail - Len(q_popped) = mpsc_capacity

\* C39: for every interleaving of the producers' push steps and the
\* consumer's pop steps, each value pop returns was pushed and is returned
\* once, in the order of the positions; no two producers hold the same slot; a
\* slot is written only after the consumer has read its previous value; and
\* push returns Err only when the queue is full: the position one round
\* before tail is claimed and the consumer has not released its slot.
C39_ErrOnlyWhenFull ==
    /\ [](/\ MpscEachValueOnce
          /\ MpscOneWriterPerSlot
          /\ q_tail - Len(q_popped) \in 0 .. mpsc_capacity)
    /\ [][ /\ MpscNoOverwriteBeforeRead
           /\ \A p \in Producers :
                  /\ (mp_pc[p] # "idle" /\ mp_result'[p].tag = "Err")
                         => mp_pc[p] = "branch" /\ mp_seq[p] < mp_tail[p]
                  /\ ( /\ mp_pc[p] = "load_seq" /\ mp_pc'[p] = "branch"
                       /\ mp_seq'[p] < mp_tail[p] )
                         => /\ MpscFull
                            /\ mp_tail[p] = q_tail
                            /\ Len(q_popped) = mp_tail[p] - mpsc_capacity ]_vars

\* C39 witness: a push has returned Err in the second round of the slots
\* while the producer that claimed the slot one round earlier has not
\* written its value yet.
C39_Witness ==
    \E p, q \in Producers :
        /\ mp_result[p].tag = "Err"
        /\ mp_pc[p] = "idle"
        /\ mp_pc[q] = "write"
        /\ mp_tail[q] = mp_tail[p] - mpsc_capacity
        /\ Len(q_popped) >= 1

\* C39 as stated: push returns Err only when the slot at tail still holds
\* an unconsumed value of the previous round.
C39_ErrOnlyWhenSlotHoldsValue ==
    /\ [](MpscEachValueOnce /\ MpscOneWriterPerSlot)
    /\ [][ /\ MpscNoOverwriteBeforeRead
           /\ \A p \in Producers :
                  /\ (mp_pc[p] # "idle" /\ mp_result'[p].tag = "Err")
                         => mp_pc[p] = "branch" /\ mp_seq[p] < mp_tail[p]
                  /\ ( /\ mp_pc[p] = "load_seq" /\ mp_pc'[p] = "branch"
                       /\ mp_seq'[p] < mp_tail[p] )
                         => UnconsumedAt(mp_tail[p] - mpsc_capacity) ]_vars

====
